---------------------------- MODULE Spec2Model ----------------------------
(***************************************************************************)
(* A model of flatpak-bundler's index.js: the bundle() promise chain, the  *)
(* external processes it spawns, the staging fan-outs, and the pure        *)
(* helpers (kebabify, option and manifest defaulting, argument building).  *)
(*                                                                         *)
(* JavaScript values are tagged records, objects are functions from their  *)
(* own keys to values, arrays are sequences, strings are TLA+ strings.     *)
(***************************************************************************)
EXTENDS Integers, Sequences, FiniteSets, TLC

(***************************************************************************)
(* Bounds of the model.                                                    *)
(***************************************************************************)
\* the longest files list of an input manifest
MaxFiles == 2
\* the longest symlinks list of an input manifest
MaxLinks == 2
\* child processes exit with a status in 0..MaxExit
MaxExit == 2

(***************************************************************************)
(* JavaScript values.                                                      *)
(***************************************************************************)
Undefined == [type |-> "undefined"]
Null == [type |-> "null"]
Str(s) == [type |-> "string", val |-> s]
Bool(b) == [type |-> "boolean", val |-> b]
Num(n) == [type |-> "number", val |-> n]
Arr(s) == [type |-> "array", val |-> s]
\* an object as a value, and a reference to an object or array of a heap
Obj(object) == [type |-> "object", val |-> object]
Ref(addr) == [type |-> "ref", addr |-> addr]

\* let x = value; body(x): the value is computed once, before the body
Bind(value, Body(_)) == CHOOSE r \in {Body(x) : x \in {value}} : TRUE

\* The empty object {}.
EmptyObject == [k \in {} |-> Undefined]

\* object[key]: undefined for a key the object does not have.
Get(object, key) == IF key \in DOMAIN object THEN object[key] ELSE Undefined

\* object[key] = value
Put(object, key, value) ==
  [k \in DOMAIN object \cup {key} |-> IF k = key THEN value ELSE object[k]]

\* !value is false
Truthy(value) ==
  CASE value.type = "undefined" -> FALSE
    [] value.type = "null" -> FALSE
    [] value.type = "boolean" -> value.val
    [] value.type = "number" -> value.val # 0
    [] value.type = "string" -> value.val # ""
    [] OTHER -> TRUE

RECURSIVE JoinStrings(_, _)
\* strs.join(sep) for a sequence of strings
JoinStrings(strs, sep) ==
  IF strs = <<>> THEN ""
  ELSE IF Len(strs) = 1 THEN strs[1]
  ELSE strs[1] \o sep \o JoinStrings(Tail(strs), sep)

RECURSIVE ToStr(_)
\* `${value}`: the string a template literal makes of a value
ToStr(value) ==
  CASE value.type = "string" -> value.val
    [] value.type = "number" -> ToString(value.val)
    [] value.type = "boolean" -> (IF value.val THEN "true" ELSE "false")
    [] value.type = "null" -> "null"
    [] value.type = "undefined" -> "undefined"
    [] value.type = "array" ->
         JoinStrings([i \in 1..Len(value.val) |->
                        IF value.val[i].type \in {"null", "undefined"} THEN ""
                        ELSE ToStr(value.val[i])], ",")
    [] OTHER -> "[object Object]"

\* Defaults filled in for every falsy value (value || default).
DefaultsForFalsy(object, defaults) ==
  [k \in DOMAIN object \cup DOMAIN defaults |->
     IF Truthy(Get(object, k)) \/ k \notin DOMAIN defaults
     THEN object[k] ELSE defaults[k]]

\* _.defaults({}, object, defaults): each key takes the first value that is
\* not undefined.
Defaults(object, defaults) ==
  [k \in DOMAIN object \cup DOMAIN defaults |->
     IF Get(object, k) # Undefined THEN object[k] ELSE Get(defaults, k)]

(***************************************************************************)
(* Characters and _.kebabCase.                                             *)
(***************************************************************************)
LowerAZ == "abcdefghijklmnopqrstuvwxyz"
UpperAZ == "ABCDEFGHIJKLMNOPQRSTUVWXYZ"
Digits == "0123456789"

Ch(s, i) == SubSeq(s, i, i)
LowerChars == {Ch(LowerAZ, i) : i \in 1..Len(LowerAZ)}
UpperChars == {Ch(UpperAZ, i) : i \in 1..Len(UpperAZ)}
DigitChars == {Ch(Digits, i) : i \in 1..Len(Digits)}
LowerOf ==
  [c \in UpperChars |->
     Ch(LowerAZ, CHOOSE i \in 1..Len(UpperAZ) : Ch(UpperAZ, i) = c)]
IsLower(c) == c \in LowerChars
IsUpper(c) == c \in UpperChars
IsDigit(c) == c \in DigitChars
IsWordChar(c) == IsLower(c) \/ IsUpper(c) \/ IsDigit(c)
ToLower(c) == IF IsUpper(c) THEN LowerOf[c] ELSE c

\* Whether lodash's words() starts a new word at position i of s: after a
\* lower-case letter before an upper-case one, between a letter and a digit,
\* and before the last capital of a run of capitals that a lower-case
\* letter follows.
WordBoundary(s, i) ==
  LET p == Ch(s, i - 1)
      c == Ch(s, i)
  IN  \/ IsLower(p) /\ IsUpper(c)
      \/ IsDigit(p) /\ ~IsDigit(c)
      \/ ~IsDigit(p) /\ IsDigit(c)
      \/ IsUpper(p) /\ IsUpper(c) /\ i < Len(s) /\ IsLower(Ch(s, i + 1))

RECURSIVE Words(_, _, _, _)
\* lodash's words(string), each word in lower case: cur is the word being
\* read, acc the words read so far.
Words(s, i, cur, acc) ==
  IF i > Len(s) THEN (IF cur = "" THEN acc ELSE Append(acc, cur))
  ELSE IF ~IsWordChar(Ch(s, i))
       THEN Words(s, i + 1, "", IF cur = "" THEN acc ELSE Append(acc, cur))
  ELSE IF cur # "" /\ WordBoundary(s, i)
       THEN Words(s, i + 1, ToLower(Ch(s, i)), Append(acc, cur))
  ELSE Words(s, i + 1, cur \o ToLower(Ch(s, i)), acc)

\* A key function that is not idempotent: a suffix added to every key.
kebabCaseSuffixed(key) == JoinStrings(Words(key, 1, "", <<>>), "-") \o "-2"

\* _.kebabCase(key)
kebabCase(key) == JoinStrings(Words(key, 1, "", <<>>), "-")

\* kebabify(object) for an object: _.cloneDeepWith calls the customizer on
\* the object itself, and the customizer's result (a new object with the
\* keys renamed and the values as they are) is the clone.
kebabify(object) ==
  LET renamed == [k \in DOMAIN object |-> kebabCase(k)]
  IN  [k2 \in {renamed[k] : k \in DOMAIN object} |->
         object[CHOOSE k \in DOMAIN object : renamed[k] = k2]]

(***************************************************************************)
(* The path module, for POSIX paths without "." and ".." segments.         *)
(***************************************************************************)
\* process.cwd()
Cwd == "/cwd"
\* the directory tmp's dir() makes under /var/tmp
TmpDir == "/var/tmp/tmp-1"

RECURSIVE Squeeze(_, _)
\* p from position i on, with every run of slashes made one slash
Squeeze(p, i) ==
  IF i > Len(p) THEN ""
  ELSE IF Ch(p, i) = "/" /\ i < Len(p) /\ Ch(p, i + 1) = "/" THEN Squeeze(p, i + 1)
  ELSE Ch(p, i) \o Squeeze(p, i + 1)

\* path.normalize(p)
PathNormalize(p) == IF p = "" THEN "." ELSE Squeeze(p, 1)

\* p without its trailing slashes (the root keeps its slash)
RECURSIVE StripTrailing(_)
StripTrailing(p) ==
  IF Len(p) > 1 /\ Ch(p, Len(p)) = "/" THEN StripTrailing(SubSeq(p, 1, Len(p) - 1))
  ELSE p

\* path.isAbsolute(p)
IsAbsolute(p) == Len(p) > 0 /\ Ch(p, 1) = "/"

\* path.join(a, b) of two strings: the segments that are not empty joined
\* with a slash, and the result normalized
PathJoin(a, b) ==
  Bind(IF a = "" THEN b ELSE IF b = "" THEN a ELSE a \o "/" \o b,
       PathNormalize)

\* path.resolve(p) of a string: a relative path is taken from the current
\* directory
PathResolve(p) ==
  Bind(IF p = "" THEN Cwd
       ELSE IF IsAbsolute(p) THEN p
       ELSE Cwd \o "/" \o p,
       LAMBDA q : Bind(Squeeze(q, 1), StripTrailing))

\* path.dirname(p)
PathDirname(p) ==
  Bind(StripTrailing(p),
       LAMBDA q :
         Bind({i \in 1..Len(q) : Ch(q, i) = "/"},
              LAMBDA slashes :
                IF slashes = {} THEN "."
                ELSE Bind(CHOOSE i \in slashes : \A j \in slashes : j <= i,
                          LAMBDA last :
                            IF last = 1 THEN "/"
                            ELSE StripTrailing(SubSeq(q, 1, last - 1)))))

\* _.endsWith(p, path.sep)
EndsWithSep(p) == Len(p) > 0 /\ Ch(p, Len(p)) = "/"

(***************************************************************************)
(* Object literals.                                                        *)
(***************************************************************************)
\* { key: value }
Obj1(key, value) == key :> value

(***************************************************************************)
(* addCommandLineOption, the defaulting functions, the argument lists.     *)
(***************************************************************************)
\* Nothing appended only for an undefined value (value === undefined in
\* place of !value).
addCommandLineOptionDefined(args, name, value) ==
  IF value.type = "undefined" THEN args
  ELSE IF value.type = "boolean" /\ value.val THEN Append(args, Str("--" \o name))
  ELSE Append(args, Str("--" \o name \o "=" \o ToStr(value)))

\* addCommandLineOption(args, name, value): the argument list afterwards
addCommandLineOption(args, name, value) ==
  IF ~Truthy(value) THEN args
  ELSE IF value.type = "boolean" /\ value.val THEN Append(args, Str("--" \o name))
  ELSE Append(args, Str("--" \o name \o "=" \o ToStr(value)))

\* What a call that may throw gives: a value, or the error thrown.
Returned(value) == [threw |-> FALSE, value |-> value]
Thrown(error) == [threw |-> TRUE, error |-> error]

\* The TypeError path.join and path.resolve throw for an argument that is
\* no string.
TypeError == [kind |-> "TypeError"]

\* The options that getOptionsWithDefaults makes absolute.
PathOptions == {"working-dir", "build-dir", "repo-dir", "manifest-path", "bundle-path"}

\* The defaults of getOptionsWithDefaults, for a working-dir.
optionDefaults(workingDir) ==
  Obj1("build-dir", Str(PathJoin(workingDir, "build")))
  @@ Obj1("repo-dir", Str(PathJoin(workingDir, "repo")))
  @@ Obj1("manifest-path", Str(PathJoin(workingDir, "manifest.json")))
  @@ Obj1("extra-flatpak-builder-args", Arr(<<>>))
  @@ Obj1("extra-flatpak-build-bundle-args", Arr(<<>>))

\* The five path.resolve assignments of getOptionsWithDefaults, on the
\* options with their defaults.
resolvePathOptions(merged) ==
  IF \E k \in PathOptions : Get(merged, k).type # "string"
  THEN Thrown(TypeError)
  ELSE Returned([k \in DOMAIN merged \cup PathOptions |->
                   IF k \in PathOptions
                   THEN Str(PathResolve(merged[k].val))
                   ELSE merged[k]])

\* getOptionsWithDefaults(options)
getOptionsWithDefaults(options) ==
  Bind(Get(options, "working-dir"),
       LAMBDA wd :
         IF wd.type # "string" THEN Thrown(TypeError)
         ELSE Bind(optionDefaults(wd.val),
                   LAMBDA defaults :
                     Bind(Defaults(options, defaults), resolvePathOptions)))

\* The presence of runtime tested on the defaulted manifest: it always has
\* a runtime, so runtime-version is never set.
getManifestWithDefaultsLateTest(manifest) ==
  LET defaults ==
        Obj1("branch", Str("master"))
        @@ Obj1("sdk", Str("org.freedesktop.Sdk"))
        @@ Obj1("runtime", Str("org.freedesktop.Platform"))
        @@ Obj1("modules", Arr(<<>>))
        @@ Obj1("files", Arr(<<>>))
        @@ Obj1("symlinks", Arr(<<>>))
      merged == Defaults(manifest, defaults)
  IN  IF Get(merged, "runtime").type = "undefined"
      THEN Defaults(merged, Obj1("runtime-version", Str("1.4")))
      ELSE merged

\* getManifestWithDefaults(manifest)
getManifestWithDefaults(manifest) ==
  LET defaults ==
        Obj1("branch", Str("master"))
        @@ Obj1("sdk", Str("org.freedesktop.Sdk"))
        @@ Obj1("runtime", Str("org.freedesktop.Platform"))
        @@ Obj1("modules", Arr(<<>>))
        @@ Obj1("files", Arr(<<>>))
        @@ Obj1("symlinks", Arr(<<>>))
      versioned ==
        IF Get(manifest, "runtime").type = "undefined"
        THEN defaults @@ Obj1("runtime-version", Str("1.4"))
        ELSE defaults
  IN  Defaults(manifest, versioned)

\* args.concat(more): a new array; args itself is not changed
Concat(args, more) == args \o more

\* The argument list flatpakBuilder(options, finish) spawns flatpak-builder
\* with. The array args.concat returns is dropped.
flatpakBuilderArgs(options, finish) ==
  LET a1 == addCommandLineOption(<<>>, "arch", Get(options, "arch"))
      a2 == addCommandLineOption(a1, "gpg-sign", Get(options, "gpg-sign"))
      a3 == addCommandLineOption(a2, "gpg-homedir", Get(options, "gpg-homedir"))
      a4 == addCommandLineOption(a3, "subject", Get(options, "subject"))
      a5 == addCommandLineOption(a4, "body", Get(options, "body"))
      a6 == addCommandLineOption(a5, "repo", Get(options, "repo-dir"))
      a7 == addCommandLineOption(a6, "force-clean", Bool(TRUE))
      a8 == IF ~finish
            THEN addCommandLineOption(a7, "build-only", Bool(TRUE))
            ELSE addCommandLineOption(a7, "finish-only", Bool(TRUE))
      dropped == Concat(a8, Get(options, "extra-flatpak-builder-args").val)
      a9 == a8
  IN  Append(Append(a9, Get(options, "build-dir")), Get(options, "manifest-path"))

\* The argument list flatpakBuildBundle(options, manifest) spawns flatpak
\* with. The array args.concat returns is dropped.
flatpakBuildBundleArgs(options, manifest) ==
  LET a0 == <<Str("build-bundle")>>
      a1 == addCommandLineOption(a0, "arch", Get(options, "arch"))
      a2 == addCommandLineOption(a1, "gpg-sign", Get(options, "gpg-sign"))
      a3 == addCommandLineOption(a2, "gpg-homedir", Get(options, "gpg-homedir"))
      a4 == addCommandLineOption(a3, "repo-url", Get(options, "bundle-repo-url"))
      a5 == IF Truthy(Get(options, "build-runtime"))
            THEN addCommandLineOption(a4, "runtime", Bool(TRUE))
            ELSE a4
      dropped == Concat(a5, Get(options, "extra-flatpak-build-bundle-args").val)
      a6 == a5
  IN  a6 \o <<Get(options, "repo-dir"), Get(options, "bundle-path"),
               Get(manifest, "id"), Get(manifest, "branch")>>

(***************************************************************************)
(* Promises and errors.                                                    *)
(***************************************************************************)
Pending == [state |-> "pending"]
Fulfilled == [state |-> "fulfilled"]
Rejected(error) == [state |-> "rejected", reason |-> error]

\* resolve() and reject(error) of a promise: a settled promise stays as it is
Resolve(promise) == IF promise.state = "pending" THEN Fulfilled ELSE promise
Reject(promise, error) ==
  IF promise.state = "pending" THEN Rejected(error) ELSE promise

\* new Error(`${command} failed with status code ${code}`)
StatusError(command, code) ==
  [kind |-> "status", command |-> command, code |-> code]
\* the error of a child's 'error' event
LaunchError(command) == [kind |-> "launch", command |-> command]
\* the error a failed filesystem operation calls back with
FsError(op, path) == [kind |-> "fs", op |-> op, path |-> path]

\* No handler of 'error': the promise is left as it is.
spawnOnErrorUnheard(promise, error) == promise

\* spawnWithLogging's handler of the child's 'error' event
spawnOnError(promise, error) == Reject(promise, error)

\* A close handler that does not look at the status code.
spawnOnCloseAnyCode(promise, command, code) == Resolve(promise)

\* A close handler that settles the promise only for status 0.
spawnOnCloseSuccessOnly(promise, command, code) ==
  IF code = 0 THEN Resolve(promise) ELSE promise

\* spawnWithLogging's handler of the child's 'close' event
spawnOnClose(promise, command, code) ==
  LET rejected == IF code # 0
                  THEN Reject(promise, StatusError(command, code))
                  ELSE promise
  IN  Resolve(rejected)

(***************************************************************************)
(* The state.                                                              *)
(***************************************************************************)
VARIABLES
  input,      \* the manifest and options bundle() was called with
  manifest,   \* bundle's manifest variable
  options,    \* bundle's options variable
  pc,         \* the stage of the promise chain whose promise is awaited
  chain,      \* that promise
  fsop,       \* the filesystem operation a one-operation stage waits for
  copies,     \* copyFiles' items
  links,      \* createSymlinks' items
  procs,      \* the child processes spawned, in order
  stages,     \* the stages started, in order
  callbacks,  \* the argument lists the callback was invoked with
  writes,     \* the manifest files written, in order
  dirs,       \* the directories the run has created
  call        \* the last call of a pure function: its arguments and result

vars == <<input, manifest, options, pc, chain, fsop, copies, links, procs,
          stages, callbacks, writes, dirs, call>>

NoOp == [op |-> "none"]
NoCall == [fn |-> "none"]

\* The stages in the order bundle() chains them.
StageOrder ==
  <<"ensureWorkingDir", "writeJsonFile", "build-only", "copyFiles",
    "createSymlinks", "finish-only", "flatpakBuildBundle">>

\* The stages whose promise is a spawned child's.
ProcStages == {"build-only", "finish-only", "flatpakBuildBundle"}

(***************************************************************************)
(* The inputs bundle() is called with.                                     *)
(***************************************************************************)
FilePair(i) ==
  IF i = 1 THEN Arr(<<Str("a.txt"), Str("sub/")>>)
  ELSE Arr(<<Str("/data/f" \o ToString(i)), Str("bin/f" \o ToString(i))>>)

LinkPair(i) ==
  Arr(<<Str("bin/foo" \o ToString(i)), Str("foo-link" \o ToString(i))>>)

\* A manifest with nf files and nl symlinks, with or without its own
\* branch and runtime.
InputManifest(nf, nl, own) ==
  Obj1("id", Str("org.example.App"))
  @@ (IF nf > 0 THEN Obj1("files", Arr([i \in 1..nf |-> FilePair(i)]))
      ELSE EmptyObject)
  @@ (IF nl > 0 THEN Obj1("symlinks", Arr([i \in 1..nl |-> LinkPair(i)]))
      ELSE EmptyObject)
  @@ (IF own THEN Obj1("branch", Str("stable"))
                  @@ Obj1("runtime", Str("org.gnome.Platform"))
                  @@ Obj1("runtimeVersion", Str("3.20"))
      ELSE EmptyObject)

InputManifests ==
  {InputManifest(nf, nl, own) :
     nf \in 0..MaxFiles, nl \in 0..MaxLinks, own \in BOOLEAN}

InputOptions ==
  { EmptyObject,
    Obj1("bundlePath", Str("dist/app.flatpak")),
    Obj1("working-dir", Str("work")) @@ Obj1("bundle-path", Str("")),
    Obj1("workingDir", Str("/srv/work/"))
      @@ Obj1("bundlePath", Str("/out/app.flatpak"))
      @@ Obj1("arch", Str("x86_64"))
      @@ Obj1("gpgSign", Str("KEY"))
      @@ Obj1("gpgHomedir", Str("/keys"))
      @@ Obj1("subject", Str("release"))
      @@ Obj1("body", Str("notes"))
      @@ Obj1("bundleRepoUrl", Str("http://repo"))
      @@ Obj1("buildRuntime", Bool(TRUE))
      @@ Obj1("extraFlatpakBuilderArgs", Arr(<<Str("--ccache")>>))
      @@ Obj1("extraFlatpakBuildBundleArgs", Arr(<<Str("--oci")>>)),
    Obj1("working-dir", Str("work"))
      @@ Obj1("bundle-path", Str("app.flatpak"))
      @@ Obj1("build-dir", Str("out/build"))
      @@ Obj1("build-runtime", Bool(FALSE))
      @@ Obj1("arch", Str("")) }

(***************************************************************************)
(* Init: bundle() has not been called.                                     *)
(***************************************************************************)
Init ==
  /\ input = [called |-> FALSE]
  /\ manifest = EmptyObject
  /\ options = EmptyObject
  /\ pc = "idle"
  /\ chain = Pending
  /\ fsop = NoOp
  /\ copies = <<>>
  /\ links = <<>>
  /\ procs = <<>>
  /\ stages = <<>>
  /\ callbacks = <<>>
  /\ writes = <<>>
  /\ dirs = {}
  /\ call = NoCall

\* childProcess.spawn(command, args, { cwd: options['working-dir'] }) in
\* spawnWithLogging: the child and the promise of its outcome
Spawned(stage, command, args) ==
  [stage |-> stage, command |-> command, args |-> args,
   cwd |-> Get(options, "working-dir"), events |-> <<>>, promise |-> Pending]

\* A then-callback of bundle's chain is due: the promise awaited is settled.
\* Promise reactions run before the next event is handled, so no event
\* handler runs in such a state.
ReactionDue == pc \notin {"idle", "done", "failed"} /\ chain.state # "pending"

\* A child is running from its spawn to its first 'error' or 'close' event.
Running(proc) == proc.events = <<>>

(***************************************************************************)
(* bundle(manifest, options, callback), to the call of ensureWorkingDir.   *)
(***************************************************************************)
Bundle(m, o) ==
  /\ pc = "idle"
  /\ input' = [called |-> TRUE, manifest |-> m, options |-> o]
  /\ manifest' = kebabify(m)
  /\ options' = kebabify(o)
  /\ fsop' = IF ~Truthy(Get(options', "working-dir"))
             THEN [op |-> "tmpdir", path |-> "/var/tmp"]
             ELSE [op |-> "mkdirs", path |-> Get(options', "working-dir").val]
  /\ pc' = "ensureWorkingDir"
  /\ chain' = Pending
  /\ stages' = Append(stages, "ensureWorkingDir")
  /\ UNCHANGED <<copies, links, procs, callbacks, writes, dirs, call>>

\* tmpdir's directory made but not recorded as working-dir.
TmpdirDoneUnrecorded(ok) ==
  /\ ~ReactionDue
  /\ pc = "ensureWorkingDir"
  /\ fsop.op = "tmpdir"
  /\ fsop' = NoOp
  /\ IF ok
     THEN /\ dirs' = dirs \cup {TmpDir}
          /\ chain' = Resolve(chain)
     ELSE /\ chain' = Reject(chain, FsError("tmpdir", fsop.path))
          /\ UNCHANGED dirs
  /\ UNCHANGED <<input, manifest, options, pc, copies, links, procs, stages,
                 callbacks, writes, call>>

\* tmpdir calls back: ensureWorkingDir's then-callback records the directory
TmpdirDone(ok) ==
  /\ ~ReactionDue
  /\ pc = "ensureWorkingDir"
  /\ fsop.op = "tmpdir"
  /\ fsop' = NoOp
  /\ IF ok
     THEN /\ options' = Put(options, "working-dir", Str(TmpDir))
          /\ dirs' = dirs \cup {TmpDir}
          /\ chain' = Resolve(chain)
     ELSE /\ chain' = Reject(chain, FsError("tmpdir", fsop.path))
          /\ UNCHANGED <<options, dirs>>
  /\ UNCHANGED <<input, manifest, pc, copies, links, procs, stages,
                 callbacks, writes, call>>

\* mkdirs(options['working-dir']) calls back
MkdirsDone(ok) ==
  /\ ~ReactionDue
  /\ pc = "ensureWorkingDir"
  /\ fsop.op = "mkdirs"
  /\ fsop' = NoOp
  /\ IF ok
     THEN /\ dirs' = dirs \cup {fsop.path}
          /\ chain' = Resolve(chain)
     ELSE /\ chain' = Reject(chain, FsError("mkdirs", fsop.path))
          /\ UNCHANGED dirs
  /\ UNCHANGED <<input, manifest, options, pc, copies, links, procs, stages,
                 callbacks, writes, call>>

\* The first then-callback of bundle: the defaults. A throw rejects the
\* chain.
ThenDefaults ==
  /\ pc = "ensureWorkingDir"
  /\ chain.state = "fulfilled"
  /\ LET made == getOptionsWithDefaults(options)
     IN  IF made.threw
         THEN /\ chain' = Rejected(made.error)
              /\ UNCHANGED <<options, manifest>>
         ELSE /\ options' = made.value
              /\ manifest' = getManifestWithDefaults(manifest)
              /\ chain' = Fulfilled
  /\ pc' = "defaults"
  /\ UNCHANGED <<input, fsop, copies, links, procs, stages, callbacks,
                 writes, dirs, call>>

\* JSON.stringify(manifest, null, '  '): the keys whose value JSON has
JSONStringify(object) ==
  [k \in {j \in DOMAIN object : object[j].type # "undefined"} |-> object[k]]

\* .then(() => writeJsonFile(options, manifest))
ThenWriteJsonFile ==
  /\ pc = "defaults"
  /\ chain.state = "fulfilled"
  /\ fsop' = [op |-> "writeFile", path |-> Get(options, "manifest-path").val,
              data |-> JSONStringify(manifest)]
  /\ pc' = "writeJsonFile"
  /\ chain' = Pending
  /\ stages' = Append(stages, "writeJsonFile")
  /\ UNCHANGED <<input, manifest, options, copies, links, procs, callbacks,
                 writes, dirs, call>>

\* writeFile calls back
WriteFileDone(ok) ==
  /\ ~ReactionDue
  /\ pc = "writeJsonFile"
  /\ fsop.op = "writeFile"
  /\ fsop' = NoOp
  /\ IF ok
     THEN /\ writes' = Append(writes, [path |-> fsop.path, data |-> fsop.data])
          /\ chain' = Resolve(chain)
     ELSE /\ chain' = Reject(chain, FsError("writeFile", fsop.path))
          /\ UNCHANGED writes
  /\ UNCHANGED <<input, manifest, options, pc, copies, links, procs, stages,
                 callbacks, dirs, call>>

\* The builder spawned without waiting for writeFile.
ThenBuildOnlyEager ==
  /\ pc = "writeJsonFile"
  /\ chain.state \in {"pending", "fulfilled"}
  /\ procs' = Append(procs, Spawned("build-only", "flatpak-builder",
                                    flatpakBuilderArgs(options, FALSE)))
  /\ pc' = "build-only"
  /\ chain' = Pending
  /\ stages' = Append(stages, "build-only")
  /\ UNCHANGED <<input, manifest, options, fsop, copies, links, callbacks,
                 writes, dirs, call>>

\* .then(() => flatpakBuilder(options, false))
ThenBuildOnly ==
  /\ pc = "writeJsonFile"
  /\ chain.state = "fulfilled"
  /\ procs' = Append(procs, Spawned("build-only", "flatpak-builder",
                                    flatpakBuilderArgs(options, FALSE)))
  /\ pc' = "build-only"
  /\ chain' = Pending
  /\ stages' = Append(stages, "build-only")
  /\ UNCHANGED <<input, manifest, options, fsop, copies, links, callbacks,
                 writes, dirs, call>>

(***************************************************************************)
(* The events of a spawned child.                                          *)
(***************************************************************************)
\* The chain awaits the promise of the child its current stage spawned.
Awaited(i) == procs[i].stage = pc

\* 'error': the child could not be started
ChildError(i) ==
  /\ ~ReactionDue
  /\ i \in 1..Len(procs)
  /\ Running(procs[i])
  /\ LET settled == spawnOnError(procs[i].promise, LaunchError(procs[i].command))
     IN  /\ procs' = [procs EXCEPT ![i].events = Append(@, [ev |-> "error"]),
                                   ![i].promise = settled]
         /\ chain' = IF Awaited(i) THEN settled ELSE chain
  /\ UNCHANGED <<input, manifest, options, pc, fsop, copies, links, stages,
                 callbacks, writes, dirs, call>>

\* 'close': the child has ended with a status in 0..MaxExit; after a failed
\* launch Node may still emit 'close', with the negative errno (-2, ENOENT).
ChildClose(i, code) ==
  /\ ~ReactionDue
  /\ i \in 1..Len(procs)
  /\ \/ Running(procs[i]) /\ code \in 0..MaxExit
     \/ procs[i].events = <<[ev |-> "error"]>> /\ code = -2
  /\ LET settled == spawnOnClose(procs[i].promise, procs[i].command, code)
     IN  /\ procs' = [procs EXCEPT
                        ![i].events = Append(@, [ev |-> "close", code |-> code]),
                        ![i].promise = settled]
         /\ chain' = IF Awaited(i) THEN settled ELSE chain
  /\ UNCHANGED <<input, manifest, options, pc, fsop, copies, links, stages,
                 callbacks, writes, dirs, call>>

(***************************************************************************)
(* copyFiles.                                                              *)
(***************************************************************************)
\* One element of copyFiles' map: the paths, and mkdirs(dir) under way
CopyItem(sourceDest) ==
  Bind(PathJoin(PathJoin(Get(options, "build-dir").val, "files"),
                sourceDest.val[2].val),
       LAMBDA dest :
         [source |-> PathResolve(sourceDest.val[1].val),
          dest |-> dest,
          dir |-> IF ~EndsWithSep(dest) THEN PathDirname(dest) ELSE dest,
          state |-> "mkdirs"])

\* Promise.all(promises) of promises that are all pending or fulfilled
PromiseAll(fulfilled) ==
  IF \A i \in DOMAIN fulfilled : fulfilled[i] THEN Fulfilled ELSE Pending

\* copyFiles called when the chain is built, not when the builder is done.
ThenCopyFilesEager ==
  /\ pc = "build-only"
  /\ chain.state \in {"pending", "fulfilled"}
  /\ LET files == Get(manifest, "files").val
     IN  /\ copies' = [i \in 1..Len(files) |-> CopyItem(files[i])]
         /\ chain' = PromiseAll([i \in 1..Len(files) |-> FALSE])
  /\ pc' = "copyFiles"
  /\ stages' = Append(stages, "copyFiles")
  /\ UNCHANGED <<input, manifest, options, fsop, links, procs, callbacks,
                 writes, dirs, call>>

\* .then(() => copyFiles(options, manifest))
ThenCopyFiles ==
  /\ pc = "build-only"
  /\ chain.state = "fulfilled"
  /\ LET files == Get(manifest, "files").val
     IN  /\ copies' = [i \in 1..Len(files) |-> CopyItem(files[i])]
         /\ chain' = PromiseAll([i \in 1..Len(files) |-> FALSE])
  /\ pc' = "copyFiles"
  /\ stages' = Append(stages, "copyFiles")
  /\ UNCHANGED <<input, manifest, options, fsop, links, procs, callbacks,
                 writes, dirs, call>>

\* mkdirs(dir) of a copy calls back: then copy(source, dest) starts
CopyMkdirsDone(i, ok) ==
  /\ ~ReactionDue
  /\ i \in 1..Len(copies)
  /\ copies[i].state = "mkdirs"
  /\ IF ok
     THEN /\ copies' = [copies EXCEPT ![i].state = "copy"]
          /\ dirs' = dirs \cup {copies[i].dir}
          /\ UNCHANGED chain
     ELSE /\ copies' = [copies EXCEPT ![i].state = "failed"]
          /\ chain' = IF pc = "copyFiles"
                      THEN Reject(chain, FsError("mkdirs", copies[i].dir))
                      ELSE chain
          /\ UNCHANGED dirs
  /\ UNCHANGED <<input, manifest, options, pc, fsop, links, procs, stages,
                 callbacks, writes, call>>

\* The phase fulfilled by the first copy that is done (a race, not a join).
CopyDoneAny(i, ok) ==
  /\ ~ReactionDue
  /\ i \in 1..Len(copies)
  /\ copies[i].state = "copy"
  /\ copies' = [copies EXCEPT ![i].state = IF ok THEN "done" ELSE "failed"]
  /\ chain' =
       IF pc # "copyFiles" THEN chain
       ELSE IF ~ok THEN Reject(chain, FsError("copy", copies[i].dest))
       ELSE Resolve(chain)
  /\ UNCHANGED <<input, manifest, options, pc, fsop, links, procs, stages,
                 callbacks, writes, dirs, call>>

\* copy(source, dest) calls back: Promise.all fulfils with the last copy and
\* rejects with the first error
CopyDone(i, ok) ==
  /\ ~ReactionDue
  /\ i \in 1..Len(copies)
  /\ copies[i].state = "copy"
  /\ copies' = [copies EXCEPT ![i].state = IF ok THEN "done" ELSE "failed"]
  /\ chain' =
       IF pc # "copyFiles" THEN chain
       ELSE IF ~ok THEN Reject(chain, FsError("copy", copies[i].dest))
       ELSE IF PromiseAll([j \in 1..Len(copies) |-> copies'[j].state = "done"])
               = Fulfilled
            THEN Resolve(chain)
       ELSE chain
  /\ UNCHANGED <<input, manifest, options, pc, fsop, links, procs, stages,
                 callbacks, writes, dirs, call>>

(***************************************************************************)
(* createSymlinks.                                                         *)
(***************************************************************************)
\* One element of createSymlinks' map: the paths, and mkdirs(dir) under way
LinkItem(targetDest) ==
  Bind(PathJoin(PathJoin(Get(options, "build-dir").val, "files"),
                targetDest.val[2].val),
       LAMBDA dest :
         [target |-> PathJoin("/app", targetDest.val[1].val),
          dest |-> dest,
          dir |-> PathDirname(dest),
          state |-> "mkdirs"])

\* Whether the promise of a link (mkdirs(dir).then(...)) is fulfilled: the
\* then-callback calls symlink(target, dest) and returns nothing, so the
\* promise fulfils as soon as mkdirs has succeeded, whatever symlink does.
linkFulfilled(link) == link.state \in {"symlink", "done", "symlinkFailed"}

\* .then(() => createSymlinks(options, manifest))
ThenCreateSymlinks ==
  /\ pc = "copyFiles"
  /\ chain.state = "fulfilled"
  /\ LET symlinks == Get(manifest, "symlinks").val
     IN  /\ links' = [i \in 1..Len(symlinks) |-> LinkItem(symlinks[i])]
         /\ chain' = PromiseAll([i \in 1..Len(symlinks) |-> FALSE])
  /\ pc' = "createSymlinks"
  /\ stages' = Append(stages, "createSymlinks")
  /\ UNCHANGED <<input, manifest, options, fsop, copies, procs, callbacks,
                 writes, dirs, call>>

\* mkdirs(dir) of a link calls back: then symlink(target, dest) starts
LinkMkdirsDone(i, ok) ==
  /\ ~ReactionDue
  /\ i \in 1..Len(links)
  /\ links[i].state = "mkdirs"
  /\ links' = [links EXCEPT ![i].state = IF ok THEN "symlink" ELSE "failed"]
  /\ dirs' = IF ok THEN dirs \cup {links[i].dir} ELSE dirs
  /\ chain' =
       IF pc # "createSymlinks" THEN chain
       ELSE IF ~ok THEN Reject(chain, FsError("mkdirs", links[i].dir))
       ELSE IF PromiseAll([j \in 1..Len(links) |-> linkFulfilled(links'[j])])
               = Fulfilled
            THEN Resolve(chain)
       ELSE chain
  /\ UNCHANGED <<input, manifest, options, pc, fsop, copies, procs, stages,
                 callbacks, writes, call>>

\* symlink(target, dest) calls back: nothing holds its promise
SymlinkDone(i, ok) ==
  /\ ~ReactionDue
  /\ i \in 1..Len(links)
  /\ links[i].state = "symlink"
  /\ links' = [links EXCEPT ![i].state = IF ok THEN "done" ELSE "symlinkFailed"]
  /\ UNCHANGED <<input, manifest, options, pc, chain, fsop, copies, procs,
                 stages, callbacks, writes, dirs, call>>

(***************************************************************************)
(* The second builder pass, the bundler, the callback.                     *)
(***************************************************************************)
\* .then(() => flatpakBuilder(options, true))
ThenFinishOnly ==
  /\ pc = "createSymlinks"
  /\ chain.state = "fulfilled"
  /\ procs' = Append(procs, Spawned("finish-only", "flatpak-builder",
                                    flatpakBuilderArgs(options, TRUE)))
  /\ pc' = "finish-only"
  /\ chain' = Pending
  /\ stages' = Append(stages, "finish-only")
  /\ UNCHANGED <<input, manifest, options, fsop, copies, links, callbacks,
                 writes, dirs, call>>

\* .then(() => flatpakBuildBundle(options, manifest)): nothing to do without
\* a bundle-path, else mkdirs of its directory
ThenBuildBundle ==
  /\ pc = "finish-only"
  /\ chain.state = "fulfilled"
  /\ IF ~Truthy(Get(options, "bundle-path"))
     THEN /\ chain' = Fulfilled
          /\ UNCHANGED fsop
     ELSE /\ chain' = Pending
          /\ fsop' = [op |-> "mkdirs",
                      path |-> PathDirname(Get(options, "bundle-path").val)]
  /\ pc' = "flatpakBuildBundle"
  /\ stages' = Append(stages, "flatpakBuildBundle")
  /\ UNCHANGED <<input, manifest, options, copies, links, procs, callbacks,
                 writes, dirs, call>>

\* mkdirs(path.dirname(options['bundle-path'])) calls back: then flatpak is
\* spawned
BundleMkdirsDone(ok) ==
  /\ ~ReactionDue
  /\ pc = "flatpakBuildBundle"
  /\ fsop.op = "mkdirs"
  /\ fsop' = NoOp
  /\ IF ok
     THEN /\ dirs' = dirs \cup {fsop.path}
          /\ procs' = Append(procs,
                        Spawned("flatpakBuildBundle", "flatpak",
                                flatpakBuildBundleArgs(options, manifest)))
          /\ UNCHANGED chain
     ELSE /\ chain' = Reject(chain, FsError("mkdirs", fsop.path))
          /\ UNCHANGED <<dirs, procs>>
  /\ UNCHANGED <<input, manifest, options, pc, copies, links, stages,
                 callbacks, writes, call>>

\* The last then of bundle, fulfilled: callback(null, options, manifest)
ThenCallback ==
  /\ pc = "flatpakBuildBundle"
  /\ chain.state = "fulfilled"
  /\ callbacks' = Append(callbacks, <<Null, options, manifest>>)
  /\ pc' = "done"
  /\ UNCHANGED <<input, manifest, options, chain, fsop, copies, links, procs,
                 stages, writes, dirs, call>>

\* The last then of bundle, rejected: callback(error)
CatchCallback ==
  /\ pc \notin {"idle", "done", "failed"}
  /\ chain.state = "rejected"
  /\ callbacks' = Append(callbacks, <<chain.reason>>)
  /\ pc' = "failed"
  /\ UNCHANGED <<input, manifest, options, chain, fsop, copies, links, procs,
                 stages, writes, dirs, call>>

(***************************************************************************)
(* The specification of a run of bundle().                                 *)
(***************************************************************************)
Next ==
  \/ \E m \in InputManifests, o \in InputOptions : Bundle(m, o)
  \/ \E ok \in BOOLEAN : TmpdirDone(ok)
  \/ \E ok \in BOOLEAN : MkdirsDone(ok)
  \/ ThenDefaults
  \/ ThenWriteJsonFile
  \/ \E ok \in BOOLEAN : WriteFileDone(ok)
  \/ ThenBuildOnly
  \/ \E i \in 1..Len(procs) : ChildError(i)
  \/ \E i \in 1..Len(procs), code \in {-2} \cup 0..MaxExit : ChildClose(i, code)
  \/ ThenCopyFiles
  \/ \E i \in 1..Len(copies), ok \in BOOLEAN : CopyMkdirsDone(i, ok)
  \/ \E i \in 1..Len(copies), ok \in BOOLEAN : CopyDone(i, ok)
  \/ ThenCreateSymlinks
  \/ \E i \in 1..Len(links), ok \in BOOLEAN : LinkMkdirsDone(i, ok)
  \/ \E i \in 1..Len(links), ok \in BOOLEAN : SymlinkDone(i, ok)
  \/ ThenFinishOnly
  \/ ThenBuildBundle
  \/ \E ok \in BOOLEAN : BundleMkdirsDone(ok)
  \/ ThenCallback
  \/ CatchCallback

Spec == Init /\ [][Next]_vars

(***************************************************************************)
(* A run in which what has been started ends: the then-callbacks of a      *)
(* settled promise run, a filesystem operation under way calls back, a     *)
(* running child ends or fails to start.                                   *)
(***************************************************************************)
Reactions ==
  \/ ThenDefaults
  \/ ThenWriteJsonFile
  \/ ThenBuildOnly
  \/ ThenCopyFiles
  \/ ThenCreateSymlinks
  \/ ThenFinishOnly
  \/ ThenBuildBundle
  \/ ThenCallback
  \/ CatchCallback

FsCompletions ==
  \/ \E ok \in BOOLEAN : TmpdirDone(ok)
  \/ \E ok \in BOOLEAN : MkdirsDone(ok)
  \/ \E ok \in BOOLEAN : WriteFileDone(ok)
  \/ \E i \in 1..Len(copies), ok \in BOOLEAN : CopyMkdirsDone(i, ok)
  \/ \E i \in 1..Len(copies), ok \in BOOLEAN : CopyDone(i, ok)
  \/ \E i \in 1..Len(links), ok \in BOOLEAN : LinkMkdirsDone(i, ok)
  \/ \E i \in 1..Len(links), ok \in BOOLEAN : SymlinkDone(i, ok)
  \/ \E ok \in BOOLEAN : BundleMkdirsDone(ok)

ChildEnds ==
  \E i \in 1..Len(procs) :
    /\ Running(procs[i])
    /\ \/ ChildError(i)
       \/ \E code \in 0..MaxExit : ChildClose(i, code)

SpecLive ==
  /\ Init /\ [][Next]_vars
  /\ WF_vars(Reactions)
  /\ WF_vars(FsCompletions)
  /\ WF_vars(ChildEnds)

(***************************************************************************)
(* Calls of the pure functions on inputs drawn from bounded sets.          *)
(***************************************************************************)
\* The values a manifest key is given: absent (no key), or one of these.
OwnValues(key) ==
  CASE key \in {"files", "symlinks"} ->
         {Arr(<<>>), Arr(<<Arr(<<Str("a"), Str("b")>>)>>)}
    [] key = "modules" -> {Arr(<<Str("module")>>)}
    [] key \in {"branch", "runtime"} -> {Str("own-" \o key), Str(""), Null}
    [] key = "workingDir" -> {Str("work"), Str("")}
    [] key \in {"build-dir", "repo-dir", "manifest-path"} ->
         {Str("rel/" \o key), Str("/abs//" \o key \o "/")}
    [] key = "bundle-path" ->
         {Str("dist/app.flatpak"), Str("/out/app.flatpak"), Str("")}
    [] key = "working-dir" -> {Str("work"), Str("/srv/work/"), Str(TmpDir)}
    [] key = "gpg_sign" -> {Bool(TRUE), Bool(FALSE)}
    [] key = "nestedOptions" -> {Ref(1), Ref(5)}
    [] key = "fileList" -> {Ref(4), Ref(6)}
    [] OTHER -> {Str("own-" \o key)}

ManifestKeys ==
  <<"id", "branch", "sdk", "runtime", "runtime-version", "modules", "files",
    "symlinks", "x-extra">>

RECURSIVE ObjectsOver(_)
\* Every object over some of the keys, each key with one of its values.
ObjectsOver(keys) ==
  IF keys = <<>> THEN {EmptyObject}
  ELSE LET rest == ObjectsOver(Tail(keys))
       IN  rest \cup {Obj1(Head(keys), v) @@ m :
                        v \in OwnValues(Head(keys)), m \in rest}

CallInputManifests == ObjectsOver(ManifestKeys)

CallGetManifestWithDefaults(m) ==
  /\ call = NoCall
  /\ call' = [fn |-> "getManifestWithDefaults", arg |-> m,
              result |-> getManifestWithDefaults(m)]
  /\ UNCHANGED <<input, manifest, options, pc, chain, fsop, copies, links,
                 procs, stages, callbacks, writes, dirs>>

(***************************************************************************)
(* Objects and arrays by reference, for calls of kebabify: a heap maps an  *)
(* address to an object or an array, whose values are primitives or        *)
(* references.                                                             *)
(***************************************************************************)
\* The nested objects and arrays the inputs of kebabify are made of.
NestedHeap ==
  (1 :> Obj(Obj1("innerKey", Str("v")) @@ Obj1("deep_object", Ref(2))))
  @@ (2 :> Obj(Obj1("deepKey", Str("w"))))
  @@ (3 :> Arr(<<Str("a.txt"), Str("sub/")>>))
  @@ (4 :> Arr(<<Ref(3)>>))
  @@ (5 :> Obj(Obj1("inner-key", Str("v"))))
  @@ (6 :> Arr(<<Ref(5), Ref(2)>>))

\* The address of the object kebabify is called with, and the addresses of
\* the objects its reduce calls start from ({}).
RootAddr == 7
NewAddr == 8
NewAddr2 == 9

\* The top-level keys of the inputs of kebabify.
KebabKeys ==
  <<"workingDir", "build-dir", "gpg_sign", "XMLPath2", "nestedOptions",
    "fileList">>

RECURSIVE Reach(_, _)
\* The addresses of the objects and arrays reachable from a value.
Reach(heap, value) ==
  IF value.type # "ref" THEN {}
  ELSE LET cell == heap[value.addr]
           inner == IF cell.type = "object"
                    THEN UNION {Reach(heap, cell.val[k]) : k \in DOMAIN cell.val}
                    ELSE UNION {Reach(heap, cell.val[i]) : i \in 1..Len(cell.val)}
       IN  {value.addr} \cup inner

RECURSIVE Unfold(_, _)
\* The structure a value stands for: references replaced by what they
\* refer to.
Unfold(heap, value) ==
  IF value.type # "ref" THEN value
  ELSE LET cell == heap[value.addr]
       IN  IF cell.type = "object"
           THEN Obj([k \in DOMAIN cell.val |-> Unfold(heap, cell.val[k])])
           ELSE Arr([i \in 1..Len(cell.val) |-> Unfold(heap, cell.val[i])])

\* kebabify(object) of the object at an address: _.cloneDeepWith returns
\* what the customizer returns for the object itself, a new object (at
\* address new) holding the values of the old one.
kebabifyAt(heap, addr, new) == (new :> Obj(kebabify(heap[addr].val))) @@ heap

CallKebabify(object) ==
  /\ call = NoCall
  /\ LET heap == (RootAddr :> Obj(object)) @@ NestedHeap
     IN  call' = [fn |-> "kebabify", heap |-> heap, arg |-> Ref(RootAddr),
                  after |-> kebabifyAt(heap, RootAddr, NewAddr),
                  result |-> Ref(NewAddr)]
  /\ UNCHANGED <<input, manifest, options, pc, chain, fsop, copies, links,
                 procs, stages, callbacks, writes, dirs>>

\* The options getOptionsWithDefaults is called with: ensureWorkingDir has
\* left a working-dir that is a non-empty string, the other options are the
\* caller's, relative or absolute, or absent.
CallInputOptions ==
  {Obj1("working-dir", w) @@ o :
     w \in OwnValues("working-dir"),
     o \in ObjectsOver(<<"build-dir", "repo-dir", "manifest-path",
                         "bundle-path", "arch">>)}

CallGetOptionsWithDefaults(o) ==
  /\ call = NoCall
  /\ call' = [fn |-> "getOptionsWithDefaults", arg |-> o,
              result |-> getOptionsWithDefaults(o)]
  /\ UNCHANGED <<input, manifest, options, pc, chain, fsop, copies, links,
                 procs, stages, callbacks, writes, dirs>>

\* The argument lists, names and values addCommandLineOption is called with.
CallArgs ==
  {<<>>, <<Str("build-bundle")>>, <<Str("--arch=x86_64"), Str("--force-clean")>>}
CallNames == {"arch", "gpg-sign", "runtime"}
CallValues ==
  <<Undefined, Null, Bool(FALSE), Bool(TRUE), Num(0), Num(7), Str(""),
    Str("x86_64"), Str("true"), Arr(<<Str("a"), Str("b")>>)>>

CallAddCommandLineOption(args, name, value) ==
  /\ call = NoCall
  /\ call' = [fn |-> "addCommandLineOption", args |-> args, name |-> name,
              value |-> value,
              result |-> addCommandLineOption(args, name, value)]
  /\ UNCHANGED <<input, manifest, options, pc, chain, fsop, copies, links,
                 procs, stages, callbacks, writes, dirs>>

\* kebabify(kebabify(object))
CallKebabifyTwice(object) ==
  /\ call = NoCall
  /\ LET heap == (RootAddr :> Obj(object)) @@ NestedHeap
         once == kebabifyAt(heap, RootAddr, NewAddr)
     IN  call' = [fn |-> "kebabifyTwice", heap |-> heap, arg |-> Ref(RootAddr),
                  after |-> once, result |-> Ref(NewAddr),
                  after2 |-> kebabifyAt(once, NewAddr, NewAddr2),
                  result2 |-> Ref(NewAddr2)]
  /\ UNCHANGED <<input, manifest, options, pc, chain, fsop, copies, links,
                 procs, stages, callbacks, writes, dirs>>

NextCall ==
  \/ \E m \in CallInputManifests : CallGetManifestWithDefaults(m)
  \/ \E o \in ObjectsOver(KebabKeys) : CallKebabify(o)
  \/ \E o \in ObjectsOver(KebabKeys) : CallKebabifyTwice(o)
  \/ \E o \in CallInputOptions : CallGetOptionsWithDefaults(o)
  \/ \E args \in CallArgs, name \in CallNames, i \in 1..Len(CallValues) :
       CallAddCommandLineOption(args, name, CallValues[i])

SpecCall == Init /\ [][NextCall]_vars

(***************************************************************************)
(* The claims.                                                             *)
(***************************************************************************)
\* What a child is, read from its command line.
ProcKind(proc) ==
  IF proc.command = "flatpak-builder"
     /\ \E j \in 1..Len(proc.args) : proc.args[j] = Str("--build-only")
  THEN "build-only"
  ELSE IF proc.command = "flatpak-builder"
          /\ \E j \in 1..Len(proc.args) : proc.args[j] = Str("--finish-only")
  THEN "finish-only"
  ELSE IF proc.command = "flatpak" /\ proc.args # <<>>
          /\ proc.args[1] = Str("build-bundle")
  THEN "build-bundle"
  ELSE "other"

ProcOrder == <<"build-only", "finish-only", "build-bundle">>

IsPrefix(s, t) == Len(s) <= Len(t) /\ \A i \in 1..Len(s) : s[i] = t[i]

C1_State ==
  /\ IsPrefix(stages, StageOrder)
  /\ IsPrefix([i \in 1..Len(procs) |-> ProcKind(procs[i])], ProcOrder)
  /\ Cardinality({i \in 1..Len(procs) : Running(procs[i])}) <= 1

C1_Step ==
  /\ Len(procs') >= Len(procs)
  /\ stages' # stages =>
       /\ stages' = Append(stages, StageOrder[Len(stages) + 1])
       /\ stages # <<>> =>
            /\ chain.state = "fulfilled"
            /\ pc \in {stages[Len(stages)], "defaults"}
  /\ Len(procs') > Len(procs) =>
       \A i \in 1..Len(procs) : procs[i].promise.state = "fulfilled"

\* C1: the stages of a run start in the one fixed order, each in a step
\* taken when the promise of the stage before it is fulfilled; the children
\* spawned are a prefix of build-only, finish-only, build-bundle, a child is
\* spawned only when every earlier child's promise is fulfilled, and at most
\* one child is running at any time.
C1_StagesInOrder == [](C1_State) /\ [][C1_Step]_vars

\* A whole run: seven stages, three children, the callback.
C1_Witness == pc = "done" /\ Len(stages) = 7 /\ Len(procs) = 3

\* A child that exited with a non-zero status: its first event is 'close'
\* with a code other than 0.
ExitedNonZero(proc) ==
  /\ proc.events # <<>>
  /\ proc.events[1].ev = "close"
  /\ proc.events[1].code # 0

\* C2: once a child has exited with a status n other than 0, it is the last
\* child and its stage is the last stage started (after a failed build-only
\* pass there are no copies and no links), the chain is rejected with the
\* error of status n, the run is at that stage or failed, never done, and
\* once failed the callback has been invoked once, with that error.
C2_NonZeroExitFails ==
  \A i \in 1..Len(procs) :
    ExitedNonZero(procs[i]) =>
      LET error == StatusError(procs[i].command, procs[i].events[1].code)
      IN  /\ i = Len(procs)
          /\ stages[Len(stages)] = procs[i].stage
          /\ procs[i].stage = "build-only" => copies = <<>> /\ links = <<>>
          /\ chain = Rejected(error)
          /\ error.code = procs[i].events[1].code
          /\ \/ pc = procs[i].stage /\ callbacks = <<>>
             \/ pc = "failed" /\ callbacks = << <<error>> >>

\* The build-only pass exited with status 2 and the callback got the error.
C2_Witness ==
  /\ pc = "failed"
  /\ Len(procs) = 1
  /\ procs[1].events = <<[ev |-> "close", code |-> 2]>>
  /\ callbacks = << <<StatusError("flatpak-builder", 2)>> >>

\* The caller configured no bundle-path: absent or empty in the options.
NoBundlePath ==
  input.called /\ ~Truthy(Get(kebabify(input.options), "bundle-path"))

\* C3: in a run whose caller configured no bundle-path, flatpak is never
\* spawned, the bundle stage is fulfilled at once, and the run fails only
\* with the error of a stage that failed (a filesystem operation or a
\* child), so that it is done when every stage before succeeded.
C3_NoBundlePathSkipsBundler ==
  NoBundlePath =>
    /\ \A i \in 1..Len(procs) : procs[i].command # "flatpak"
    /\ pc = "flatpakBuildBundle" => chain = Fulfilled
    /\ chain.state = "rejected" =>
         chain.reason.kind \in {"fs", "status", "launch"}

\* What bundle() finalizes: the inputs normalized, the working directory
\* settled, the defaults applied.
FinalOptions ==
  LET normalized == kebabify(input.options)
      settled == IF ~Truthy(Get(normalized, "working-dir"))
                 THEN Put(normalized, "working-dir", Str(TmpDir))
                 ELSE normalized
  IN  getOptionsWithDefaults(settled).value

FinalManifest == getManifestWithDefaults(kebabify(input.manifest))

\* Some operation of a stage has failed: a child that did not start or
\* exited with a status other than 0, or a filesystem operation.
ChildFailed(proc) ==
  proc.events # <<>> /\ proc.events[1] # [ev |-> "close", code |-> 0]

FsFailure ==
  \/ chain.state = "rejected" /\ chain.reason.kind = "fs"
  \/ \E i \in 1..Len(copies) : copies[i].state = "failed"
  \/ \E i \in 1..Len(links) : links[i].state \in {"failed", "symlinkFailed"}

StageFailure ==
  \/ chain.state = "rejected"
  \/ FsFailure
  \/ \E i \in 1..Len(procs) : ChildFailed(procs[i])

C4_State ==
  /\ Len(callbacks) <= 1
  /\ \A i \in 1..Len(callbacks) :
       \/ /\ Len(callbacks[i]) = 1
          /\ callbacks[i][1] \notin {Null, Undefined}
       \/ /\ callbacks[i] = <<Null, FinalOptions, FinalManifest>>

C4_Step ==
  (callbacks' # callbacks /\ Len(callbacks'[Len(callbacks')]) = 3) =>
    ~StageFailure

\* C4: the callback is invoked at most once, each time with an error and
\* nothing else or with no error and the finalized options and manifest,
\* and it is not invoked with success once an operation of a stage has
\* failed.
C4_SingleCompletion == [](C4_State) /\ [][C4_Step]_vars

\* C5: once a filesystem operation of the run has failed, no further stage
\* and no further child is started, the run is never done, and when it has
\* failed the callback has been invoked with an error.
C5_FsFailureIsFatal ==
  /\ [](FsFailure =>
          /\ pc # "done"
          /\ pc = "failed" =>
               Len(callbacks) = 1 /\ Len(callbacks[1]) = 1)
  /\ [][FsFailure => stages' = stages /\ Len(procs') = Len(procs)]_vars

\* A copy or a link of the staging phases is still under way.
StagingInFlight ==
  \/ \E i \in 1..Len(copies) : copies[i].state \in {"mkdirs", "copy"}
  \/ \E i \in 1..Len(links) : links[i].state \in {"mkdirs", "symlink"}

\* C6: no flatpak-builder child is running while a copy or a symlink
\* creation of the run is under way.
C6_StagingJoinsBeforeFinish ==
  \A i \in 1..Len(procs) :
    (Running(procs[i]) /\ procs[i].command = "flatpak-builder") =>
      ~StagingInFlight

\* What an option contributes to an argument list: nothing when falsy, the
\* bare flag when true, --name=value otherwise.
OptionArgs(name, value) ==
  IF ~Truthy(value) THEN <<>>
  ELSE IF value.type = "boolean" /\ value.val THEN <<Str("--" \o name)>>
  ELSE <<Str("--" \o name \o "=" \o ToStr(value))>>

C7_Args(pass) ==
  OptionArgs("arch", Get(options, "arch"))
  \o OptionArgs("gpg-sign", Get(options, "gpg-sign"))
  \o OptionArgs("gpg-homedir", Get(options, "gpg-homedir"))
  \o OptionArgs("subject", Get(options, "subject"))
  \o OptionArgs("body", Get(options, "body"))
  \o OptionArgs("repo", Get(options, "repo-dir"))
  \o <<Str("--force-clean"), Str("--" \o pass)>>
  \o Get(options, "extra-flatpak-builder-args").val
  \o <<Get(options, "build-dir"), Get(options, "manifest-path")>>

\* C7: every flatpak-builder child is spawned with the optional flags arch,
\* gpg-sign, gpg-homedir, subject, body, repo, then --force-clean, then
\* --build-only or --finish-only, then the elements of
\* extra-flatpak-builder-args, then build-dir and manifest-path.
C7_BuilderArguments ==
  \A i \in 1..Len(procs) :
    procs[i].command = "flatpak-builder" =>
      procs[i].args = C7_Args(IF i = 1 THEN "build-only" ELSE "finish-only")

C8_Args ==
  <<Str("build-bundle")>>
  \o OptionArgs("arch", Get(options, "arch"))
  \o OptionArgs("gpg-sign", Get(options, "gpg-sign"))
  \o OptionArgs("gpg-homedir", Get(options, "gpg-homedir"))
  \o OptionArgs("repo-url", Get(options, "bundle-repo-url"))
  \o (IF Truthy(Get(options, "build-runtime")) THEN <<Str("--runtime")>>
      ELSE <<>>)
  \o Get(options, "extra-flatpak-build-bundle-args").val
  \o <<Get(options, "repo-dir"), Get(options, "bundle-path"),
       Get(manifest, "id"), Get(manifest, "branch")>>

\* C8: every flatpak child is spawned with build-bundle, then the optional
\* flags arch, gpg-sign, gpg-homedir, repo-url and --runtime, then the
\* elements of extra-flatpak-build-bundle-args, then repo-dir, bundle-path,
\* the manifest's id and its branch.
C8_BundlerArguments ==
  \A i \in 1..Len(procs) :
    procs[i].command = "flatpak" => procs[i].args = C8_Args

C9_State ==
  \A i \in 1..Len(procs) :
    LET p == procs[i]
    IN  /\ p.promise.state = "pending" <=> p.events = <<>>
        /\ p.promise.state = "fulfilled" <=>
             (p.events # <<>> /\ p.events[1] = [ev |-> "close", code |-> 0])
        /\ ExitedNonZero(p) =>
             p.promise = Rejected(StatusError(p.command, p.events[1].code))
        /\ (p.events # <<>> /\ p.events[1].ev = "error") =>
             p.promise = Rejected(LaunchError(p.command))

C9_Step ==
  \A i \in 1..Len(procs) :
    procs[i].promise.state # "pending" => procs'[i].promise = procs[i].promise

\* C9: the promise of a spawned child is pending until the child's first
\* event, fulfilled exactly when that event is a close with status 0,
\* rejected with the status error when it is a close with another status,
\* rejected with the launch error when it is an error; once settled it never
\* changes, whatever events follow.
C9_SpawnSettlesOnce == [](C9_State) /\ [][C9_Step]_vars

\* A child that failed to start and then closed: two events, one outcome.
C9_Witness ==
  \E i \in 1..Len(procs) :
    /\ procs[i].events = <<[ev |-> "error"], [ev |-> "close", code |-> -2]>>
    /\ procs[i].promise = Rejected(LaunchError(procs[i].command))

\* The defaults of a manifest, as the specification lists them.
C10_Defaults ==
  Obj1("branch", Str("master"))
  @@ Obj1("sdk", Str("org.freedesktop.Sdk"))
  @@ Obj1("runtime", Str("org.freedesktop.Platform"))
  @@ Obj1("modules", Arr(<<>>))
  @@ Obj1("files", Arr(<<>>))
  @@ Obj1("symlinks", Arr(<<>>))

\* C10: the manifest getManifestWithDefaults returns has, for every key of
\* its input, the input's value; its other keys are keys with a default
\* (or runtime-version), each with its default.
C10_DefaultsKeepInput ==
  call.fn = "getManifestWithDefaults" =>
    /\ \A k \in DOMAIN call.arg :
         k \in DOMAIN call.result /\ call.result[k] = call.arg[k]
    /\ \A k \in DOMAIN call.result \ DOMAIN call.arg :
         /\ k \in DOMAIN C10_Defaults \cup {"runtime-version"}
         /\ k \in DOMAIN C10_Defaults => call.result[k] = C10_Defaults[k]
    /\ DOMAIN C10_Defaults \subseteq DOMAIN call.result

\* An input with an empty branch, a null runtime and its own files, and no
\* sdk: the first three are kept, the sdk is the default.
C10_Witness ==
  /\ call.fn = "getManifestWithDefaults"
  /\ Get(call.arg, "branch") = Str("")
  /\ Get(call.arg, "runtime") = Null
  /\ Get(call.arg, "files") = Arr(<<Arr(<<Str("a"), Str("b")>>)>>)
  /\ "sdk" \notin DOMAIN call.arg
  /\ call.result["branch"] = Str("")
  /\ call.result["sdk"] = Str("org.freedesktop.Sdk")

\* C11 as stated: runtime-version is "1.4" exactly when the input has no
\* runtime, and with a runtime no runtime-version key is added.
C11_VersionIffRuntimeAbsent ==
  call.fn = "getManifestWithDefaults" =>
    /\ Get(call.result, "runtime-version") = Str("1.4")
         <=> "runtime" \notin DOMAIN call.arg
    /\ "runtime" \in DOMAIN call.arg =>
         ("runtime-version" \in DOMAIN call.result
            => "runtime-version" \in DOMAIN call.arg)

\* C11: a runtime-version of the input is kept; for an input without one,
\* the result has runtime-version "1.4" when the input has no runtime and no
\* runtime-version key when it has one (the test is made on the input, not
\* on the defaulted manifest).
C11_VersionForAbsentRuntime ==
  call.fn = "getManifestWithDefaults" =>
    IF "runtime-version" \in DOMAIN call.arg
    THEN Get(call.result, "runtime-version") = call.arg["runtime-version"]
    ELSE IF "runtime" \in DOMAIN call.arg
         THEN "runtime-version" \notin DOMAIN call.result
         ELSE /\ Get(call.result, "runtime-version") = Str("1.4")
              /\ Get(call.result, "runtime") = Str("org.freedesktop.Platform")

\* An input with neither runtime nor runtime-version: both are defaulted.
C11_Witness ==
  /\ call.fn = "getManifestWithDefaults"
  /\ "runtime" \notin DOMAIN call.arg
  /\ "runtime-version" \notin DOMAIN call.arg
  /\ call.result["runtime-version"] = Str("1.4")

RECURSIVE C12_Normalized(_)
\* A structure with the keys of its objects, at every depth, in
\* dash-separated lower case, and everything else as it is.
C12_Normalized(value) ==
  IF value.type = "object"
  THEN Obj([k2 \in {kebabCase(k) : k \in DOMAIN value.val} |->
              C12_Normalized(
                value.val[CHOOSE k \in DOMAIN value.val : kebabCase(k) = k2])])
  ELSE IF value.type = "array"
  THEN Arr([i \in 1..Len(value.val) |-> C12_Normalized(value.val[i])])
  ELSE value

\* C12: what kebabify returns is its input with every key at every depth in
\* dash-separated lower case, arrays still arrays and every leaf and element
\* with its value, and no object or array of the result is one of the input.
C12_DeepNormalizedCopy ==
  call.fn = "kebabify" =>
    /\ Unfold(call.after, call.result)
         = C12_Normalized(Unfold(call.heap, call.arg))
    /\ Reach(call.after, call.result) \cap Reach(call.heap, call.arg) = {}

\* C13: getOptionsWithDefaults, called with a working-dir and any of the
\* other path options relative, absolute or absent, returns options whose
\* working-dir, build-dir, repo-dir, manifest-path and bundle-path are
\* absolute paths.
C13_ResolvedPathsAbsolute ==
  call.fn = "getOptionsWithDefaults" =>
    /\ ~call.result.threw
    /\ \A k \in PathOptions :
         /\ Get(call.result.value, k).type = "string"
         /\ IsAbsolute(call.result.value[k].val)

\* The working-dir the caller gave, after the normalization of the keys.
CallerWorkingDir == Get(kebabify(input.options), "working-dir")

\* The run has failed in ensureWorkingDir: tmpdir or mkdirs failed.
FailedEnsuringWorkingDir ==
  /\ chain.state = "rejected"
  /\ chain.reason.kind = "fs"
  /\ Len(stages) = 1

\* The working directory is set, and it is a directory the run has made.
WorkingDirReady ==
  LET wd == Get(options, "working-dir")
  IN  /\ wd.type = "string"
      /\ wd.val # ""
      /\ PathResolve(wd.val) \in {PathResolve(d) : d \in dirs}

\* The working directory is the caller's when the caller gave one, else a
\* directory under /var/tmp.
WorkingDirAsAsked(resolved) ==
  LET wd == Get(resolved, "working-dir")
  IN  IF Truthy(CallerWorkingDir)
      THEN PathResolve(wd.val) = PathResolve(CallerWorkingDir.val)
      ELSE PathDirname(wd.val) = "/var/tmp"

C14_State ==
  /\ (input.called /\ pc # "ensureWorkingDir" /\ ~FailedEnsuringWorkingDir)
       => WorkingDirReady
  /\ writes # <<>> => WorkingDirReady

C14_Step ==
  /\ (pc = "ensureWorkingDir" /\ pc' = "defaults") =>
       /\ WorkingDirReady
       /\ WorkingDirAsAsked(options)
       /\ chain'.state = "fulfilled" => WorkingDirAsAsked(options')
  /\ pc \notin {"idle", "ensureWorkingDir"} => options' = options
  /\ (pc = "ensureWorkingDir" /\ fsop.op = "tmpdir" /\ chain'.state = "fulfilled"
        /\ chain.state = "pending")
       => TmpDir \notin dirs /\ TmpDir \in dirs'

\* C14: when the defaults are computed working-dir is a non-empty string
\* naming a directory the run has made, the caller's directory when the
\* caller gave one, else a new directory under /var/tmp; the defaults keep
\* that directory, nothing changes the options afterwards, and the manifest
\* is written only when the directory exists.
C14_WorkingDirReady == [](C14_State) /\ [][C14_Step]_vars

\* A run without a working-dir of the caller's that has written its manifest
\* under the directory tmpdir made.
C14_Witness ==
  /\ input.called
  /\ ~Truthy(CallerWorkingDir)
  /\ writes # <<>>
  /\ options["working-dir"] = Str(TmpDir)
  /\ options["manifest-path"] = Str(TmpDir \o "/manifest.json")
  /\ TmpDir \in dirs

\* The error of the operation a copy is waiting for, should it fail.
CopyError(copy) ==
  IF copy.state = "mkdirs" THEN FsError("mkdirs", copy.dir)
  ELSE FsError("copy", copy.dest)

CopyFailed == \E i \in 1..Len(copies) : copies[i].state = "failed"

C15_State ==
  /\ Len(stages) >= 5 => \A i \in 1..Len(copies) : copies[i].state = "done"
  /\ links # <<>> => \A i \in 1..Len(copies) : copies[i].state = "done"
  /\ CopyFailed =>
       /\ links = <<>>
       /\ stages[Len(stages)] = "copyFiles"
       /\ pc \in {"copyFiles", "failed"}
       /\ chain.state = "rejected"
       /\ chain.reason.kind = "fs"
       /\ \E i \in 1..Len(copies) :
            /\ copies[i].state = "failed"
            /\ chain.reason \in {FsError("mkdirs", copies[i].dir),
                                 FsError("copy", copies[i].dest)}
       /\ pc = "failed" => callbacks = << <<chain.reason>> >>

C15_Step ==
  /\ (stages' # stages /\ stages'[Len(stages')] = "copyFiles") =>
       /\ Len(copies') = Len(Get(manifest, "files").val)
       /\ \A i \in 1..Len(copies') : copies'[i].state = "mkdirs"
  /\ \A i \in 1..Len(copies) :
       (copies[i].state # "failed" /\ copies'[i].state = "failed") =>
         IF CopyFailed
         THEN chain' = chain /\ callbacks' = callbacks
         ELSE chain' = Rejected(CopyError(copies[i]))
  /\ (links' # links /\ links = <<>>) =>
       \A i \in 1..Len(copies) : copies[i].state = "done"

\* C15: copyFiles starts every pair of the manifest's files at once; the
\* symlink stage starts, and a link exists, only when every copy is done;
\* the first copy to fail rejects the chain with its error, later failures
\* change nothing, and after a failure there is never a link, the copy stage
\* is the last stage, and the callback is invoked with that first error.
C15_CopiesJoinBeforeSymlinks == [](C15_State) /\ [][C15_Step]_vars

\* Two copies have failed, one after the other, and the callback got the
\* error of the first.
C15_Witness ==
  /\ pc = "failed"
  /\ Len(copies) = 2
  /\ \A i \in 1..2 : copies[i].state = "failed"
  /\ callbacks = << <<chain.reason>> >>
  /\ links = <<>>

C16_State ==
  /\ Len(writes) <= 1
  /\ writes # <<>> =>
       /\ writes[1].path = Get(options, "manifest-path").val
       /\ writes[1].data = JSONStringify(manifest)
  /\ procs # <<>> => Len(writes) = 1
  /\ pc = "done" =>
       /\ Len(writes) = 1
       /\ callbacks[1][3] = writes[1].data
       /\ callbacks[1][2]["manifest-path"].val = writes[1].path

C16_Step ==
  /\ writes # <<>> => writes' = writes /\ manifest' = manifest
  /\ Len(procs') > Len(procs) => Len(writes) = 1
  /\ writes' # writes => procs = <<>> /\ procs' = <<>>

\* C16: the manifest file is written at most once, at manifest-path and
\* with the run's manifest; once written it is never written again and the
\* manifest does not change; a child is spawned only after the write; and
\* the manifest the callback gets on success is the one written.
C16_ManifestWrittenOnce == [](C16_State) /\ [][C16_Step]_vars

\* A run that succeeded, with its own branch and runtime in the manifest
\* written and handed to the callback.
C16_Witness ==
  /\ pc = "done"
  /\ Len(writes) = 1
  /\ writes[1].data = callbacks[1][3]
  /\ Get(writes[1].data, "branch") = Str("stable")
  /\ Get(writes[1].data, "files") # Arr(<<>>)

\* The values the claim lists as contributing nothing.
C17_Falsy(value) ==
  \/ value.type \in {"undefined", "null"}
  \/ value.type = "boolean" /\ ~value.val
  \/ value.type = "number" /\ value.val = 0
  \/ value.type = "string" /\ value.val = ""

\* The text of a value after --name=.
C17_Text(value) ==
  IF value.type = "string" THEN value.val
  ELSE IF value.type = "number" THEN ToString(value.val)
  ELSE ToStr(value)

\* C17: addCommandLineOption leaves the arguments as they are for a falsy
\* value; for true it appends the one element --name; for any other value
\* it appends the one element --name=value; the arguments there before stay
\* as they were, in order.
C17_OptionArgument ==
  call.fn = "addCommandLineOption" =>
    /\ IsPrefix(call.args, call.result)
    /\ IF C17_Falsy(call.value) THEN call.result = call.args
       ELSE /\ Len(call.result) = Len(call.args) + 1
            /\ call.result[Len(call.result)].type = "string"
            /\ call.result[Len(call.result)].val =
                 IF call.value.type = "boolean"
                 THEN "--" \o call.name
                 ELSE "--" \o call.name \o "=" \o C17_Text(call.value)

\* The string "true" is not the boolean: it is appended as --runtime=true
\* after the two arguments there before.
C17_Witness ==
  /\ call.fn = "addCommandLineOption"
  /\ call.name = "runtime"
  /\ call.value.type = "string"
  /\ call.value.val = "true"
  /\ Len(call.args) = 2
  /\ call.result = Append(call.args, Str("--runtime=true"))

\* C18: kebabify(kebabify(x)) is the same structure as kebabify(x).
C18_KebabifyIdempotent ==
  call.fn = "kebabifyTwice" =>
    Unfold(call.after2, call.result2) = Unfold(call.after, call.result)

\* An input with keys in camel case and in snake case and with nested
\* objects, normalized twice.
C18_Witness ==
  /\ call.fn = "kebabifyTwice"
  /\ {"workingDir", "gpg_sign", "nestedOptions", "fileList"}
       \subseteq DOMAIN call.heap[RootAddr].val
  /\ {"working-dir", "gpg-sign", "nested-options", "file-list"}
       \subseteq DOMAIN call.after2[NewAddr2].val
  /\ "XMLPath2" \in DOMAIN call.heap[RootAddr].val
  /\ "xml-path-2" \in DOMAIN call.after2[NewAddr2].val
  /\ call.after2[NewAddr2].val["nested-options"] = Ref(1)

\* The run has ended: the callback has been invoked.
Completed == pc \in {"done", "failed"} /\ Len(callbacks) = 1

\* What a run that has not ended waits for: a filesystem operation of its
\* stage, or the child of its stage.
AwaitsFs ==
  \/ pc \in {"ensureWorkingDir", "writeJsonFile", "flatpakBuildBundle"}
       /\ fsop # NoOp
  \/ pc = "copyFiles"
       /\ \E i \in 1..Len(copies) : copies[i].state \in {"mkdirs", "copy"}
  \/ pc = "createSymlinks"
       /\ \E i \in 1..Len(links) : links[i].state = "mkdirs"

AwaitsChild == \E i \in 1..Len(procs) : Awaited(i) /\ Running(procs[i])

\* C19: a run that has been started and has not ended always has a
\* then-callback due, a filesystem operation of its stage under way, or
\* the child of its stage running; and when what is started always ends,
\* the run ends, with the callback invoked.
C19_RunCompletes ==
  /\ []((pc # "idle" /\ ~Completed) => (ReactionDue \/ AwaitsFs \/ AwaitsChild))
  /\ (pc # "idle") ~> Completed

\* A run that went as far as the bundler and ended there in failure.
C19_Witness ==
  /\ Completed
  /\ pc = "failed"
  /\ Len(procs) = 3
  /\ procs[3].events # <<>>
  /\ links # <<>>

\* A child of the run is still running.
ChildInFlight == \E i \in 1..Len(procs) : Running(procs[i])

\* C20: once the callback has been invoked, with success or with an error,
\* no copy, directory creation or symlink creation of the run is under way
\* and no child of the run is running.
C20_QuiescentAtCallback ==
  callbacks # <<>> => (~StagingInFlight /\ fsop = NoOp /\ ~ChildInFlight)

=============================================================================
